---- MODULE Spec2Model ----
(***************************************************************************)
(* MediaRG API: a REST API for a photo-sharing demo kept in three          *)
(* near-duplicate variants (src/index.js, src/unnamed/part_000,            *)
(* src/unnamed/part_001).  Photos go to blob storage, their metadata,      *)
(* comments and ratings to three document collections.                     *)
(*                                                                         *)
(* Conventions of the model.                                               *)
(*  - A JavaScript string is a sequence of one-character strings, so that  *)
(*    trim, slice, split, concatenation and CONTAINS act on characters.    *)
(*  - A JavaScript number is kept in tenths (1 is 10, 2.5 is 25); NaN and  *)
(*    the infinities are the numbers with fin = FALSE.                     *)
(*  - A request field is a JavaScript value: a record [t, s, n] with t the *)
(*    typeof tag, s the characters of a string, n a number in tenths or a  *)
(*    boolean as 0/1.                                                      *)
(*  - A document collection holds at most one item per (partition key, id) *)
(*    as the document database does; the containers are partitioned as the *)
(*    source's comments say (ratings and comments by /photoId).            *)
(*  - The configuration (environment variables read by must/requireEnv) is *)
(*    present: configuration loading is outside the documented core.       *)
(***************************************************************************)
EXTENDS Integers, Sequences, FiniteSets, TLC

VARIABLES
    variant,          \* which of the three source files is running
    now,              \* Date.now(), in milliseconds since the service started
    ratings,          \* the ratings container
    comments,         \* the comments container
    photos,           \* the photos container
    blobs,            \* names of the blobs stored in the blob container
    containerExists,  \* whether the blob container has been created
    reqs,             \* the requests waiting at an await, per client
    last,             \* the response of the last handler that ran to its end
    lastRated,        \* history: per (photoId, userKey), the value last saved
    uploadsOk         \* history: number of POST /api/photos answered 201

vars == <<variant, now, ratings, comments, photos, blobs, containerExists,
          reqs, last, lastRated, uploadsOk>>

-----------------------------------------------------------------------------
(* Bounds of the model *)

\* Date.now() takes the values 0..MaxClock
MaxClock == 1
\* at most this many documents in the ratings container
MaxRatings == 3

-----------------------------------------------------------------------------
(* The three variants *)

Variants == {"index", "part_000", "part_001"}

-----------------------------------------------------------------------------
(* Strings *)

Min(a, b) == IF a < b THEN a ELSE b

Chars(n, c) == [i \in 1..n |-> c]

IsSpace(c) == c = " "

RECURSIVE TrimStart(_)
TrimStart(s) ==
    IF s = <<>> THEN s
    ELSE IF IsSpace(Head(s)) THEN TrimStart(Tail(s)) ELSE s

RECURSIVE TrimEnd(_)
TrimEnd(s) ==
    IF s = <<>> THEN s
    ELSE IF IsSpace(s[Len(s)]) THEN TrimEnd(SubSeq(s, 1, Len(s) - 1)) ELSE s

\* String.prototype.trim
Trim(s) == TrimEnd(TrimStart(s))

\* String.prototype.slice(0, n)
Slice(s, n) == SubSeq(s, 1, Min(n, Len(s)))

-----------------------------------------------------------------------------
(* JavaScript values and conversions *)

Undefined == [t |-> "undefined", s |-> <<>>, n |-> 0]
Null == [t |-> "object", s |-> <<>>, n |-> 0]
Str(s) == [t |-> "string", s |-> s, n |-> 0]
Num(n) == [t |-> "number", s |-> <<>>, n |-> n]
Bool(b) == [t |-> "boolean", s |-> <<>>, n |-> IF b THEN 1 ELSE 0]

NaN == [fin |-> FALSE, n |-> 0]
Finite(n) == [fin |-> TRUE, n |-> n]

Digits == <<"0", "1", "2", "3", "4", "5", "6", "7", "8", "9">>
IsDigit(c) == \E i \in 1..Len(Digits) : Digits[i] = c
DigitVal(c) == (CHOOSE i \in 1..Len(Digits) : Digits[i] = c) - 1

RECURSIVE DecimalVal(_)
DecimalVal(s) ==
    IF s = <<>> THEN 0
    ELSE DecimalVal(SubSeq(s, 1, Len(s) - 1)) * 10 + DigitVal(s[Len(s)])

AllDigits(s) == \A i \in 1..Len(s) : IsDigit(s[i])

\* StringToNumber, for the decimal literals with at most one digit after the
\* point (the strings the requests of this model carry); anything else that
\* is not blank is NaN, blank is 0.
StringToNumber(s) ==
    LET t == Trim(s)
        dots == {i \in 1..Len(t) : t[i] = "."}
    IN  IF t = <<>> THEN Finite(0)
        ELSE IF dots = {} /\ AllDigits(t) THEN Finite(DecimalVal(t) * 10)
        ELSE IF Cardinality(dots) = 1
             THEN LET d == CHOOSE i \in dots : TRUE
                      ip == SubSeq(t, 1, d - 1)
                      fp == SubSeq(t, d + 1, Len(t))
                  IN  IF Len(fp) = 1 /\ AllDigits(ip) /\ AllDigits(fp)
                      THEN Finite(DecimalVal(ip) * 10 + DecimalVal(fp))
                      ELSE NaN
             ELSE NaN

\* Number(v)
ToNumber(v) ==
    CASE v.t = "undefined" -> NaN
      [] v.t = "object" -> Finite(0)
      [] v.t = "boolean" -> Finite(v.n * 10)
      [] v.t = "number" -> Finite(v.n)
      [] v.t = "string" -> StringToNumber(v.s)

\* Number.isFinite
IsFinite(x) == x.fin

\* the truthiness `||` and `!` test
Truthy(v) ==
    CASE v.t = "undefined" -> FALSE
      [] v.t = "object" -> FALSE
      [] v.t = "boolean" -> v.n = 1
      [] v.t = "number" -> v.n # 0
      [] v.t = "string" -> v.s # <<>>

\* v || "dflt"
OrElse(v, dflt) == IF Truthy(v) THEN v ELSE Str(dflt)

\* String(v), for the strings and small whole numbers and booleans
ToStr(v) ==
    CASE v.t = "string" -> v.s
      [] v.t = "number" -> <<Digits[(v.n \div 10) + 1]>>
      [] v.t = "boolean" -> IF v.n = 1 THEN <<"t", "r", "u", "e">>
                                         ELSE <<"f", "a", "l", "s", "e">>
      [] v.t = "undefined" -> <<"u", "n", "d", "e", "f", "i", "n", "e", "d">>
      [] v.t = "object" -> <<"n", "u", "l", "l">>

-----------------------------------------------------------------------------
(* The document database *)

\* the partition key of a document of the ratings or the comments container
\* (mutant) containers partitioned by /id
PartitionKeyIsId(doc) == doc.id

PartitionKeyOf(doc) == doc.photoId

\* (mutant) an upsert that finds the item to replace by id in every partition
UpsertAcrossPartitions(coll, doc, pk) ==
    {d \in coll : d.id # doc.id} \cup {doc}

\* items.upsert(doc, { partitionKey: pk }): insert, or replace the item of
\* that partition with the same id
Upsert(coll, doc, pk) ==
    {d \in coll : ~(PartitionKeyOf(d) = pk /\ d.id = doc.id)} \cup {doc}

-----------------------------------------------------------------------------
(* Ratings *)

\* the length cap of a user key
UserKeyCap == 120

\* (mutant) the range test without its upper limit
RatingIsValidNoUpper(value) == IsFinite(value) /\ ~(value.n < 10)

RatingIsValid(value) == IsFinite(value) /\ ~(value.n < 10) /\ ~(value.n > 50)

RatingUserKey(body) == Slice(ToStr(OrElse(body.userKey, <<"a", "n", "o", "n">>)), UserKeyCap)

RatingId(photoId, userKey) == photoId \o <<":", ":">> \o userKey

RatingDoc(photoId, body) ==
    LET userKey == RatingUserKey(body)
    IN  [id |-> RatingId(photoId, userKey),
         photoId |-> photoId,
         userKey |-> userKey,
         value |-> ToNumber(body.value).n,
         updatedAt |-> now]

\* (mutant) a write that adds the document and replaces none
RatingInsert(coll, doc) == coll \cup {doc}

\* the upsert of POST /api/photos/:id/rating
RatingUpsert(coll, doc) ==
    IF variant = "part_001" THEN Upsert(coll, doc, PartitionKeyOf(doc))
    ELSE Upsert(coll, doc, doc.photoId)

PairOf(doc) == <<doc.photoId, doc.userKey>>

\* history: the write replaces a stored rating of another value
Replaces(coll, doc) ==
    \E d \in coll : d.id = doc.id /\ PartitionKeyOf(d) = doc.photoId /\ d.value # doc.value

\* POST /api/photos/:id/rating.  The response is kept with the value of the
\* request and the number of calls made to the store.
PostRating(photoId, body) ==
    LET value == ToNumber(body.value)
    IN  IF ~RatingIsValid(value)
        THEN /\ last' = [op |-> "POST rating", status |-> 400, io |-> 0,
                          value |-> body.value]
             /\ UNCHANGED <<ratings, lastRated>>
        ELSE LET doc == RatingDoc(photoId, body)
             IN  \E ok \in BOOLEAN :
                    IF ok
                    THEN /\ Cardinality(RatingUpsert(ratings, doc)) <= MaxRatings
                         /\ ratings' = RatingUpsert(ratings, doc)
                         /\ lastRated' =
                               {h \in lastRated : h.pair # PairOf(doc)}
                                  \cup {[pair |-> PairOf(doc), value |-> value.n]}
                         /\ last' = [op |-> "POST rating", status |-> 201, io |-> 1,
                                     value |-> body.value,
                                     replaced |-> Replaces(ratings, doc)]
                    ELSE /\ last' = [op |-> "POST rating", status |-> 500, io |-> 1,
                                     value |-> body.value]
                         /\ UNCHANGED <<ratings, lastRated>>


RatingsOf(photoId) == {d \in ratings : d.photoId = photoId}

RECURSIVE SumValues(_)
SumValues(S) ==
    IF S = {} THEN 0
    ELSE LET d == CHOOSE x \in S : TRUE IN d.value + SumValues(S \ {d})

\* (mutant) a toFixed that cuts the digits after the second
ToFixed2Truncating(sum, count) == (10 * sum) \div count

\* Number(x.toFixed(2)) of the quotient sum / count, in hundredths; sum is in
\* tenths.  toFixed rounds to the nearest hundredth, a tie upwards.
ToFixed2(sum, count) == (20 * sum + count) \div (2 * count)

\* SELECT VALUE { "count": COUNT(1), "avg": AVG(c.value) } FROM c
\* WHERE c.photoId = @photoId, then the handler's count and average
SummaryByQuery(photoId) ==
    LET rows == RatingsOf(photoId)
        count == Cardinality(rows)
    IN  [count |-> count,
         average |-> IF count > 0 THEN ToFixed2(SumValues(rows), count) ELSE 0]

\* SELECT c.value FROM c WHERE c.photoId = @photoId, summed by the handler
SummaryByLoop(photoId) ==
    LET rows == RatingsOf(photoId)
        count == Cardinality(rows)
        sum == SumValues(rows)
    IN  [count |-> count,
         average |-> IF count # 0 THEN ToFixed2(sum, count) ELSE ToFixed2(0, 1)]

Summarize(photoId) ==
    IF variant = "part_001" THEN SummaryByLoop(photoId) ELSE SummaryByQuery(photoId)

\* GET /api/photos/:id/rating
GetRating(photoId) ==
    /\ \E ok \in BOOLEAN :
          IF ok
          THEN last' = [op |-> "GET rating", status |-> 200, io |-> 1,
                        photoId |-> photoId,
                        count |-> Summarize(photoId).count,
                        average |-> Summarize(photoId).average]
          ELSE last' = [op |-> "GET rating", status |-> 500, io |-> 1,
                        photoId |-> photoId]
    /\ UNCHANGED <<ratings, lastRated>>

-----------------------------------------------------------------------------
(* The clock *)

Tick ==
    /\ now < MaxClock
    /\ now' = now + 1

-----------------------------------------------------------------------------
(* Requests of the model *)

RatingPhotoIds == {<<"p">>, <<"p", ":", ":", "q">>}

\* the photo and the user key of a rating request: two pairs whose ids are
\* the same characters, an absent key and the key "anon", a key of the
\* capped length and a longer one
RatingTargets ==
    {<<<<"p">>, Undefined>>,
     <<<<"p">>, Str(<<"a", "n", "o", "n">>)>>,
     <<<<"p">>, Str(<<"q", ":", ":", "u">>)>>,
     <<<<"p", ":", ":", "q">>, Str(<<"u">>)>>,
     <<<<"p">>, Str(Chars(UserKeyCap, "x"))>>,
     <<<<"p">>, Str(Chars(UserKeyCap + 1, "x"))>>}

\* two of them, for the properties that do not depend on the pair
FewRatingTargets ==
    {<<<<"p">>, Undefined>>, <<<<"p", ":", ":", "q">>, Str(<<"u">>)>>}

ValueInputs ==
    {Undefined, Null, Str(<<"a", "b", "c">>), Num(9), Num(51),
     Bool(TRUE), Num(25), Str(<<"5">>)}

\* three of them, for the properties that depend on the pairs
FewValueInputs == {Undefined, Num(25), Str(<<"5">>)}

-----------------------------------------------------------------------------
(* The service *)

NoResponse == [op |-> "none", status |-> 0, io |-> 0]

Init ==
    /\ variant \in Variants
    /\ now = 0
    /\ ratings = {}
    /\ comments = {}
    /\ photos = {}
    /\ blobs = {}
    /\ containerExists = FALSE
    /\ reqs = [c \in {"c1", "c2"} |-> [pc |-> "idle"]]
    /\ last = NoResponse
    /\ lastRated = {}
    /\ uploadsOk = 0

ratingVars == <<ratings, lastRated>>
otherThanRating == <<variant, comments, photos, blobs, containerExists, reqs, uploadsOk>>

RatingPost(targets, values) ==
    /\ \E target \in targets, value \in values :
          PostRating(target[1], [value |-> value, userKey |-> target[2]])
    /\ UNCHANGED <<now, otherThanRating>>

RatingGet ==
    /\ \E photoId \in RatingPhotoIds : GetRating(photoId)
    /\ UNCHANGED <<now, otherThanRating>>

RatingTick ==
    /\ Tick
    /\ UNCHANGED <<ratingVars, last, otherThanRating>>

NextRating == RatingPost(RatingTargets, FewValueInputs) \/ RatingGet \/ RatingTick

\* the ratings with the requests of every pair and three values
SpecRating == Init /\ [][NextRating]_vars

NextRatingFew == RatingPost(FewRatingTargets, ValueInputs) \/ RatingGet \/ RatingTick

\* the ratings with the requests of two pairs and every value
SpecRatingFew == Init /\ [][NextRatingFew]_vars


-----------------------------------------------------------------------------
(* Properties of the ratings *)

StoredFor(pair) == {d \in ratings : PairOf(d) = pair}

\* C1: after any number of accepted rating submissions, one after another and
\* mixed over the pairs, the ratings container holds exactly one record for
\* each (photoId, userKey) pair that was rated, its value is the value of the
\* pair's last accepted submission, and it holds no other record.
C1_OneRatingPerPair ==
    /\ \A h \in lastRated :
          /\ Cardinality(StoredFor(h.pair)) = 1
          /\ \A d \in StoredFor(h.pair) : d.value = h.value
    /\ \A d \in ratings : \E h \in lastRated : h.pair = PairOf(d)

\* a pair was rated again with another value while other pairs are stored,
\* among them the pair whose id is the same characters
C1_Witness ==
    /\ last.op = "POST rating" /\ last.status = 201 /\ last.replaced
    /\ Cardinality(ratings) = MaxRatings
    /\ \E d, e \in ratings : d.id = e.id /\ d.photoId # e.photoId

\* what the rating rule accepts: a value that converts to a finite number
\* from 1 to 5
C2_Acceptable(value) ==
    LET x == ToNumber(value) IN x.fin /\ 10 <= x.n /\ x.n <= 50

\* C2: a rating submission whose value does not convert to a finite number
\* or lies outside 1..5 is answered 400 without a call to the store, and the
\* ratings container is as it was.
C2_InvalidRatingRejected ==
    [][\A target \in FewRatingTargets, value \in ValueInputs :
          (/\ ~C2_Acceptable(value)
           /\ PostRating(target[1], [value |-> value, userKey |-> target[2]]))
          => (last'.status = 400 /\ last'.io = 0 /\ ratings' = ratings)]_vars

\* a submission was rejected while ratings are stored
C2_Witness ==
    last.op = "POST rating" /\ last.status = 400 /\ ratings # {}

\* C3: the summary GET /api/photos/:id/rating returns has the number of the
\* photo's stored ratings as count and their mean rounded to the nearest
\* hundredth as average, and count 0 with average 0 for a photo without
\* ratings.
C3_SummaryIsCountAndRoundedMean ==
    (last.op = "GET rating" /\ last.status = 200) =>
        LET rows == {d \in ratings : d.photoId = last.photoId}
            count == Cardinality(rows)
            sum == SumValues(rows)
        IN  /\ last.count = count
            /\ count = 0 => last.average = 0
            /\ count > 0 =>
                  /\ 2 * count * last.average - 20 * sum <= count
                  /\ 20 * sum - 2 * count * last.average <= count

\* ratings 5, 5 and 2.5 of one photo: count 3, average 4.17
C3_Witness ==
    /\ last.op = "GET rating" /\ last.status = 200
    /\ last.count = 3 /\ last.average = 417
    /\ {d.value : d \in {d \in ratings : d.photoId = last.photoId}} = {25, 50}

\* the summary of a photo without ratings while another photo has some
C3_WitnessEmpty ==
    /\ last.op = "GET rating" /\ last.status = 200
    /\ last.count = 0 /\ last.average = 0 /\ ratings # {}

\* C10: every stored rating has a whole value from 1 to 5.
C10_RatingValuesAreWhole ==
    \A d \in ratings : d.value \in {10, 20, 30, 40, 50}


-----------------------------------------------------------------------------
(* Comments *)

\* at most this many documents in the comments container
MaxComments == 2

\* the length caps of a comment's author name and text
NameCap == 80
TextCap == 1000

Anonymous == <<"A", "n", "o", "n", "y", "m", "o", "u", "s">>

RECURSIVE NumStr(_)
\* String(n) of a whole number n >= 0
NumStr(n) ==
    IF n < 10 THEN <<Digits[n + 1]>>
    ELSE NumStr(n \div 10) \o <<Digits[(n % 10) + 1]>>

\* (mutant) a create that replaces the item it finds
ConflictsNever(coll, doc, pk) == FALSE

\* items.create(doc) fails with Conflict when the partition holds the id
Conflicts(coll, doc, pk) ==
    \E d \in coll : PartitionKeyOf(d) = pk /\ d.id = doc.id

\* items.create(doc, { partitionKey: pk }) where it does not fail
Create(coll, doc, pk) ==
    {d \in coll : ~(PartitionKeyOf(d) = pk /\ d.id = doc.id)} \cup {doc}

CommentName(body) ==
    IF variant = "part_001"
    THEN Trim(ToStr(OrElse(body.name, Anonymous)))
    ELSE LET name == Slice(Trim(ToStr(OrElse(body.name, <<>>))), NameCap)
         IN  IF name = <<>> THEN Anonymous ELSE name

CommentText(body) ==
    IF variant = "part_001"
    THEN Trim(ToStr(OrElse(body.text, <<>>)))
    ELSE Slice(Trim(ToStr(OrElse(body.text, <<>>))), TextCap)

\* `${Date.now()}-${Math.random().toString(16).slice(2)}`, in part_001 after
\* `${photoId}-`
CommentId(photoId, rnd) ==
    IF variant = "part_001"
    THEN photoId \o <<"-">> \o NumStr(now) \o <<"-">> \o rnd
    ELSE NumStr(now) \o <<"-">> \o rnd

CommentDoc(photoId, body, rnd) ==
    [id |-> CommentId(photoId, rnd),
     photoId |-> photoId,
     name |-> CommentName(body),
     text |-> CommentText(body),
     createdAt |-> now]

\* POST /api/photos/:id/comments; first and second say whether the store
\* answers the first and the second create.  The response is kept with the
\* name and the text of the request, and a 500 with the error it reports:
\* the one of the last create that failed.
PostComment(photoId, body, rnd) ==
    IF CommentText(body) = <<>>
    THEN /\ last' = [op |-> "POST comment", status |-> 400, io |-> 0,
                     name |-> body.name, text |-> body.text]
         /\ UNCHANGED comments
    ELSE LET doc == CommentDoc(photoId, body, rnd)
             created(io) ==
                /\ Cardinality(comments) < MaxComments
                /\ comments' = Create(comments, doc, photoId)
                /\ last' = [op |-> "POST comment", status |-> 201, io |-> io,
                            name |-> body.name, text |-> body.text,
                            comment |-> doc]
             failed(io, answered) ==
                /\ last' = [op |-> "POST comment", status |-> 500, io |-> io,
                            name |-> body.name, text |-> body.text,
                            error |-> IF answered THEN "Conflict"
                                      ELSE "ServiceUnavailable"]
                /\ UNCHANGED comments
         IN  \E first, second \in BOOLEAN :
                IF first /\ ~Conflicts(comments, doc, PartitionKeyOf(doc))
                THEN created(1)
                ELSE IF variant = "part_001" THEN failed(1, first)
                ELSE IF second /\ ~Conflicts(comments, doc, photoId)
                     THEN created(2)
                     ELSE failed(2, second)

RECURSIVE OrderByCreatedAtDesc(_)
\* ORDER BY c.createdAt DESC; the order of documents of one createdAt is the
\* store's
OrderByCreatedAtDesc(S) ==
    IF S = {} THEN <<>>
    ELSE LET d == CHOOSE x \in S : \A y \in S : y.createdAt <= x.createdAt
         IN  <<d>> \o OrderByCreatedAtDesc(S \ {d})

\* GET /api/photos/:id/comments
GetComments(photoId) ==
    /\ \E ok \in BOOLEAN :
          IF ok
          THEN last' = [op |-> "GET comments", status |-> 200, io |-> 1,
                        items |-> OrderByCreatedAtDesc(
                                     {d \in comments : d.photoId = photoId})]
          ELSE last' = [op |-> "GET comments", status |-> 500, io |-> 1]
    /\ UNCHANGED comments

CommentPhotoIds == {<<"p">>, <<"q">>}

NameInputs == {Undefined, Str(<<"B", "o">>)}

TextInputs == {Undefined, Str(<<>>), Str(<<" ", " ">>), Str(<<" ", "h", "i", " ">>)}

Rands == {<<"a">>, <<"b">>}

otherThanComment ==
    <<variant, ratings, lastRated, photos, blobs, containerExists, reqs, uploadsOk>>

CommentPost(photoIds, names, texts, rands) ==
    /\ \E photoId \in photoIds, name \in names, text \in texts, rnd \in rands :
          PostComment(photoId, [name |-> name, text |-> text], rnd)
    /\ UNCHANGED <<now, otherThanComment>>

CommentGet ==
    /\ \E photoId \in CommentPhotoIds : GetComments(photoId)
    /\ UNCHANGED <<now, otherThanComment>>

CommentTick ==
    /\ Tick
    /\ UNCHANGED <<comments, last, otherThanComment>>

NextComment ==
    \/ CommentPost(CommentPhotoIds, NameInputs, TextInputs, Rands)
    \/ CommentGet
    \/ CommentTick

SpecComment == Init /\ [][NextComment]_vars

-----------------------------------------------------------------------------
(* Properties of the comments *)

\* a field of a request that is absent, empty or white space only
BlankInput(v) ==
    \/ v.t = "undefined"
    \/ v.t = "string" /\ \A i \in 1..Len(v.s) : v.s[i] = " "

\* C5: comments are append-only.  A POST comment with an absent, empty or
\* blank text is answered 400 and leaves the comments container as it was; a
\* POST comment answered 201 adds exactly one document, the one it returns;
\* and no step removes or changes a stored comment.
C5_CommentsAppendOnly ==
    [][/\ comments \subseteq comments'
       /\ (last'.op = "POST comment" /\ BlankInput(last'.text))
             => (last'.status = 400 /\ comments' = comments)
       /\ (last' # last /\ last'.op = "POST comment" /\ last'.status = 201)
             => (/\ last'.comment \notin comments
                 /\ comments' = comments \cup {last'.comment})
       /\ ~(last' # last /\ last'.op = "POST comment" /\ last'.status = 201)
             => comments' = comments]_vars

\* a second comment was added to a photo that had one
C5_Witness ==
    /\ last.op = "POST comment" /\ last.status = 201
    /\ Cardinality({d \in comments : d.photoId = last.comment.photoId}) = 2


-----------------------------------------------------------------------------
(* Photos: upload *)

\* at most this many uploads are accepted or in flight
MaxUploads == 2

\* the cap of the people list (index.js and part_000; part_001 has none)
PeopleCap == 30

Uppers == <<"A", "B", "C", "D", "E", "F", "G", "H", "I", "J", "K", "L", "M",
            "N", "O", "P", "Q", "R", "S", "T", "U", "V", "W", "X", "Y", "Z">>
Lowers == <<"a", "b", "c", "d", "e", "f", "g", "h", "i", "j", "k", "l", "m",
            "n", "o", "p", "q", "r", "s", "t", "u", "v", "w", "x", "y", "z">>

LowerChar(c) ==
    IF \E i \in 1..Len(Uppers) : Uppers[i] = c
    THEN Lowers[CHOOSE i \in 1..Len(Uppers) : Uppers[i] = c]
    ELSE c

\* String.prototype.toLowerCase, LOWER
ToLowerCase(s) == [i \in 1..Len(s) |-> LowerChar(s[i])]

RECURSIVE Split(_, _)
\* String.prototype.split(sep), sep one character
Split(s, sep) ==
    IF \A i \in 1..Len(s) : s[i] # sep THEN <<s>>
    ELSE LET i == CHOOSE k \in 1..Len(s) :
                     s[k] = sep /\ \A j \in 1..(k - 1) : s[j] # sep
         IN  <<SubSeq(s, 1, i - 1)>> \o Split(SubSeq(s, i + 1, Len(s)), sep)

\* Array.prototype.filter(Boolean) of strings
NonEmpty(list) == SelectSeq(list, LAMBDA x : x # <<>>)

\* safeArrayFromComma, peopleList, toPeopleArray
PeopleList(raw) ==
    IF ~Truthy(raw) THEN <<>>
    ELSE LET parts == Split(ToStr(raw), ",")
             kept == NonEmpty([i \in 1..Len(parts) |-> Trim(parts[i])])
         IN  IF variant = "part_001" THEN kept
             ELSE SubSeq(kept, 1, Min(PeopleCap, Len(kept)))

Jpg == <<"j", "p", "g">>

\* the extension of the blob name
FileExt(file) ==
    LET pop(name) == LET parts == Split(name, ".") IN parts[Len(parts)]
        orJpg(e) == IF e = <<>> THEN Jpg ELSE e
    IN  CASE variant = "index" -> orJpg(pop(file.originalname))
          [] variant = "part_000" ->
                orJpg(pop(IF file.originalname = <<>> THEN Jpg ELSE file.originalname))
          [] variant = "part_001" -> ToLowerCase(orJpg(pop(file.originalname)))

\* String(Date.now()), in part_001 followed by "-" and random hex digits
PhotoId(rnd) ==
    IF variant = "part_001" THEN NumStr(now) \o <<"-">> \o rnd ELSE NumStr(now)

NoFile == [present |-> FALSE, originalname |-> <<>>, mimetype |-> <<>>]

Idle == [pc |-> "idle"]

PhotoTitle(body) == Trim(ToStr(OrElse(body.title, <<>>)))

\* the document of the photo, once the blob is stored
PhotoDoc(r) ==
    IF variant = "part_001"
    THEN [id |-> r.id, title |-> r.title, caption |-> r.caption,
          location |-> r.location, people |-> r.people, blobName |-> r.blobName,
          url |-> <<"/">> \o r.blobName, contentType |-> r.file.mimetype,
          createdAt |-> now]
    ELSE [id |-> r.id, photoId |-> r.id, title |-> r.title, caption |-> r.caption,
          location |-> r.location, people |-> r.people,
          url |-> <<"/">> \o r.blobName, blobName |-> r.blobName,
          createdAt |-> now]

\* the photos container: items.upsert(doc), and items.create(doc) with its
\* Conflict; the partition key of a photo is its id
PhotoUpsert(coll, doc) == {d \in coll : d.id # doc.id} \cup {doc}
PhotoConflicts(coll, doc) == \E d \in coll : d.id = doc.id

InFlight == {c \in DOMAIN reqs : reqs[c].pc # "idle"}

PhotoResponse(status, io, r) ==
    [op |-> "POST photo", status |-> status, io |-> io,
     file |-> r.file.present, title |-> r.rawTitle]

\* (mutant) the handler without the test of the title
UploadStartNoTitleTest(c, file, body) ==
    /\ reqs[c].pc = "idle"
    /\ IF ~file.present
       THEN /\ last' = PhotoResponse(400, 0, [file |-> file, rawTitle |-> body.title])
            /\ UNCHANGED reqs
       ELSE /\ uploadsOk + Cardinality(InFlight) < MaxUploads
            /\ reqs' = [reqs EXCEPT ![c] =
                  [pc |-> "ensure", io |-> 1, file |-> file, rawTitle |-> body.title,
                   rawPeople |-> body.people,
                   title |-> PhotoTitle(body),
                   caption |-> Trim(ToStr(OrElse(body.caption, <<>>))),
                   location |-> Trim(ToStr(OrElse(body.location, <<>>))),
                   people |-> PeopleList(body.people)]]
            /\ UNCHANGED last
    /\ UNCHANGED <<photos, blobs, containerExists, uploadsOk>>

\* POST /api/photos, to its first await: the fields are read and tested, and
\* createIfNotExists is called
UploadStart(c, file, body) ==
    /\ reqs[c].pc = "idle"
    /\ IF ~file.present \/ PhotoTitle(body) = <<>>
       THEN /\ last' = PhotoResponse(400, 0, [file |-> file, rawTitle |-> body.title])
            /\ UNCHANGED reqs
       ELSE /\ uploadsOk + Cardinality(InFlight) < MaxUploads
            /\ reqs' = [reqs EXCEPT ![c] =
                  [pc |-> "ensure", io |-> 1, file |-> file, rawTitle |-> body.title,
                   rawPeople |-> body.people,
                   title |-> PhotoTitle(body),
                   caption |-> Trim(ToStr(OrElse(body.caption, <<>>))),
                   location |-> Trim(ToStr(OrElse(body.location, <<>>))),
                   people |-> PeopleList(body.people)]]
            /\ UNCHANGED last
    /\ UNCHANGED <<photos, blobs, containerExists, uploadsOk>>

\* the request fails: the catch answers 500
UploadFails(c) ==
    /\ last' = PhotoResponse(500, reqs[c].io, reqs[c])
    /\ reqs' = [reqs EXCEPT ![c] = Idle]

\* createIfNotExists returns: the id and the blob name are made and
\* uploadData is called
UploadEnsured(c, ok, rnd) ==
    /\ reqs[c].pc = "ensure"
    /\ IF ok
       THEN /\ containerExists' = TRUE
            /\ reqs' = [reqs EXCEPT ![c] =
                  [pc |-> "upload", io |-> 2, file |-> @.file, rawTitle |-> @.rawTitle,
                   rawPeople |-> @.rawPeople,
                   title |-> @.title, caption |-> @.caption,
                   location |-> @.location, people |-> @.people,
                   id |-> PhotoId(rnd),
                   blobName |-> PhotoId(rnd) \o <<".">> \o FileExt(@.file)]]
            /\ UNCHANGED last
       ELSE /\ UploadFails(c)
            /\ UNCHANGED containerExists
    /\ UNCHANGED <<photos, blobs, uploadsOk>>

\* (mutant) an uploadData whose failure is not noticed
UploadStoredIgnoringFailure(c, ok) ==
    /\ reqs[c].pc = "upload"
    /\ blobs' = IF ok THEN blobs \cup {reqs[c].blobName} ELSE blobs
    /\ reqs' = [reqs EXCEPT ![c] =
          [pc |-> "save", io |-> 3, file |-> @.file, rawTitle |-> @.rawTitle,
                   rawPeople |-> @.rawPeople,
           doc |-> PhotoDoc(@)]]
    /\ UNCHANGED <<last, photos, containerExists, uploadsOk>>

\* uploadData returns: the document is made and the write to the photos
\* container is called
UploadStored(c, ok) ==
    /\ reqs[c].pc = "upload"
    /\ IF ok
       THEN /\ blobs' = blobs \cup {reqs[c].blobName}
            /\ reqs' = [reqs EXCEPT ![c] =
                  [pc |-> "save", io |-> 3, file |-> @.file, rawTitle |-> @.rawTitle,
                   rawPeople |-> @.rawPeople,
                   doc |-> PhotoDoc(@)]]
            /\ UNCHANGED last
       ELSE /\ UploadFails(c)
            /\ UNCHANGED blobs
    /\ UNCHANGED <<photos, containerExists, uploadsOk>>

\* the write returns: upsert in index.js and part_000, create in part_001
UploadSaved(c, ok) ==
    /\ reqs[c].pc = "save"
    /\ IF ok /\ ~(variant = "part_001" /\ PhotoConflicts(photos, reqs[c].doc))
       THEN /\ photos' = PhotoUpsert(photos, reqs[c].doc)
            /\ uploadsOk' = uploadsOk + 1
            /\ last' = PhotoResponse(201, 3, reqs[c])
            /\ reqs' = [reqs EXCEPT ![c] = Idle]
       ELSE /\ UploadFails(c)
            /\ UNCHANGED <<photos, uploadsOk>>
    /\ UNCHANGED <<blobs, containerExists>>

Clients == {"c1", "c2"}

Files == {NoFile,
          [present |-> TRUE, originalname |-> <<"a", ".", "J">>,
           mimetype |-> <<"i", "/", "j">>]}

TitleInputs == {Undefined, Str(<<" ", " ">>), Str(<<" ", "S", "u">>)}

UploadBodies ==
    [title : TitleInputs, caption : {Undefined}, location : {Undefined},
     people : {Undefined}]

otherThanPhoto == <<variant, ratings, lastRated, comments>>

PhotoStart(clients, bodies) ==
    /\ \E c \in clients, file \in Files, body \in bodies : UploadStart(c, file, body)
    /\ UNCHANGED <<now, otherThanPhoto>>

PhotoEnsured(clients, rands) ==
    /\ \E c \in clients, ok \in BOOLEAN, rnd \in rands : UploadEnsured(c, ok, rnd)
    /\ UNCHANGED <<now, otherThanPhoto>>

PhotoStored(clients) ==
    /\ \E c \in clients, ok \in BOOLEAN : UploadStored(c, ok)
    /\ UNCHANGED <<now, otherThanPhoto>>

PhotoSaved(clients) ==
    /\ \E c \in clients, ok \in BOOLEAN : UploadSaved(c, ok)
    /\ UNCHANGED <<now, otherThanPhoto>>

PhotoTick ==
    /\ Tick
    /\ UNCHANGED <<photos, blobs, containerExists, reqs, uploadsOk, last, otherThanPhoto>>

NextPhoto ==
    \/ PhotoStart(Clients, UploadBodies)
    \/ PhotoEnsured(Clients, Rands)
    \/ PhotoStored(Clients)
    \/ PhotoSaved(Clients)
    \/ PhotoTick

\* the uploads of two clients, interleaved at the awaits
SpecPhoto == Init /\ [][NextPhoto]_vars


-----------------------------------------------------------------------------
(* Photos: list and search *)

\* String.prototype.includes, CONTAINS
Contains(s, sub) ==
    \E i \in 0..(Len(s) - Len(sub)) : SubSeq(s, i + 1, i + Len(sub)) = sub

\* (mutant) the search term without the trim
ListTermUntrimmed(q) == ToLowerCase(ToStr(OrElse(q, <<>>)))

\* String(req.query.q || "").trim().toLowerCase()
ListTerm(q) == ToLowerCase(Trim(ToStr(OrElse(q, <<>>))))

\* the WHERE of the search
Matches(d, term) ==
    \/ Contains(ToLowerCase(d.title), term)
    \/ Contains(ToLowerCase(d.caption), term)
    \/ Contains(ToLowerCase(d.location), term)

\* the documents the query of GET /api/photos returns; only part_001 reads q
ListQuery(q) ==
    IF variant = "part_001" /\ ListTerm(q) # <<>>
    THEN OrderByCreatedAtDesc({d \in photos : Matches(d, ListTerm(q))})
    ELSE OrderByCreatedAtDesc(photos)

\* GET /api/photos[?q=term].  The response is kept with the q of the request.
GetPhotos(q) ==
    /\ \E ok \in BOOLEAN :
          IF ok
          THEN last' = [op |-> "GET photos", status |-> 200, io |-> 1, q |-> q,
                        items |-> ListQuery(q)]
          ELSE last' = [op |-> "GET photos", status |-> 500, io |-> 1, q |-> q]
    /\ UNCHANGED <<photos, blobs, containerExists, reqs, uploadsOk>>

Sun == Str(<<"S", "u", "n">>)

\* uploads that differ in the field that holds "sun"
ListBodies ==
    {[title |-> Sun, caption |-> Undefined, location |-> Undefined,
      people |-> Undefined],
     [title |-> Str(<<"b">>), caption |-> Str(<<"s", "U", "n">>),
      location |-> Undefined, people |-> Undefined],
     [title |-> Str(<<"b">>), caption |-> Undefined,
      location |-> Str(<<"S", "U", "N", "d">>), people |-> Undefined],
     [title |-> Str(<<"b">>), caption |-> Undefined, location |-> Undefined,
      people |-> Str(<<"s", "u", "n">>)]}

BlankQueries == {Str(<<>>), Str(<<" ", " ">>)}

TermQueries == {Str(<<"s", "u", "n">>), Str(<<" ", "U", "N">>), Str(<<"z">>)}

PhotoList ==
    /\ \E q \in {Undefined} \cup BlankQueries \cup TermQueries : GetPhotos(q)
    /\ UNCHANGED <<now, otherThanPhoto>>

NextList ==
    \/ PhotoStart({"c1"}, ListBodies)
    \/ PhotoEnsured({"c1"}, {<<"a">>})
    \/ PhotoStored({"c1"})
    \/ PhotoSaved({"c1"})
    \/ PhotoList
    \/ PhotoTick

\* the uploads of one client and the list of the photos
SpecList == Init /\ [][NextList]_vars

\* the create requests of one client, one after another within one
\* millisecond
NextCreate ==
    \/ RatingPost({<< <<"p">>, Undefined >>}, FewValueInputs)
    \/ CommentPost({<<"p">>}, {Undefined}, TextInputs, {<<"a">>})
    \/ PhotoStart({"c1"}, UploadBodies)
    \/ PhotoEnsured({"c1"}, {<<"a">>})
    \/ PhotoStored({"c1"})
    \/ PhotoSaved({"c1"})

SpecCreate == Init /\ [][NextCreate]_vars

-----------------------------------------------------------------------------
(* Properties of the upload *)

\* C4: the blob is stored before the metadata is written.  The write to the
\* photos container is called only with the container ensured and the blob of
\* the document stored, and every stored photo names a stored blob.
C4_BlobBeforeMetadata ==
    /\ \A d \in photos : d.blobName \in blobs
    /\ \A c \in Clients :
          /\ reqs[c].pc \in {"upload", "save"} => containerExists
          /\ reqs[c].pc = "save" => reqs[c].doc.blobName \in blobs

\* a photo is stored, and a blob is stored that no photo names, after a
\* request failed at the write of the metadata
C4_Witness ==
    /\ photos # {}
    /\ \E b \in blobs : \A d \in photos : d.blobName # b
    /\ last.op = "POST photo" /\ last.status = 500 /\ last.io = 3

\* C6: a photo is created once.  No step removes or changes a stored photo,
\* and every upload answered 201 adds one photo to the container.
C6_PhotoCreatedOnce ==
    [][/\ photos \subseteq photos'
       /\ uploadsOk' = uploadsOk + 1
             => Cardinality(photos') = Cardinality(photos) + 1]_vars

\* C7: a create request that breaks a validation rule is answered 400 with no
\* call made to the blob container or the store, and no such request is ever
\* waiting for a call to return.
C7_ValidationBeforeIO ==
    /\ (last.op = "POST photo" /\ (~last.file \/ BlankInput(last.title)))
          => (last.status = 400 /\ last.io = 0)
    /\ (last.op = "POST comment" /\ BlankInput(last.text))
          => (last.status = 400 /\ last.io = 0)
    /\ (last.op = "POST rating" /\ ~C2_Acceptable(last.value))
          => (last.status = 400 /\ last.io = 0)
    /\ last.status = 400 => last.io = 0
    /\ \A c \in Clients :
          reqs[c].pc # "idle" =>
              (reqs[c].file.present /\ ~BlankInput(reqs[c].rawTitle))

\* an upload with a file and a blank title was answered 400 while the
\* container exists and photos, comments and ratings are stored
C7_Witness ==
    /\ last.op = "POST photo" /\ last.status = 400 /\ last.file
    /\ containerExists /\ photos # {} /\ comments # {} /\ ratings # {}


-----------------------------------------------------------------------------
(* Properties of the list *)

\* the items are each photo of S once, a later createdAt before an earlier
NewestFirst(items, S) ==
    /\ {items[i] : i \in 1..Len(items)} = S
    /\ Len(items) = Cardinality(S)
    /\ \A i, j \in 1..Len(items) : i < j => items[i].createdAt >= items[j].createdAt

\* C8: a list with a search term returns the stored photos whose title,
\* caption or location contains the term, whatever the case of the letters,
\* and no other photo, the newest first.
C8_SearchReturnsMatches ==
    (last.op = "GET photos" /\ last.status = 200 /\ ~BlankInput(last.q)) =>
        NewestFirst(last.items,
                    {d \in photos : Matches(d, ToLowerCase(Trim(last.q.s)))})

\* C9: a list with an empty or blank search term returns what a list without
\* a search term returns, every stored photo, the newest first.
C9_BlankSearchIsFullList ==
    /\ \A q \in BlankQueries : ListQuery(q) = ListQuery(Undefined)
    /\ (last.op = "GET photos" /\ last.status = 200 /\ BlankInput(last.q)) =>
          NewestFirst(last.items, photos)

\* a list with a blank term returned two photos of different times, one of
\* them with white space in no field
C9_Witness ==
    /\ last.op = "GET photos" /\ last.status = 200
    /\ last.q = Str(<<" ", " ">>)
    /\ Len(last.items) = 2
    /\ last.items[1].createdAt > last.items[2].createdAt


-----------------------------------------------------------------------------
(* The people of a photo *)

RECURSIVE Join(_, _)
\* the entries joined by sep
Join(list, sep) ==
    IF list = <<>> THEN <<>>
    ELSE IF Len(list) = 1 THEN list[1]
    ELSE list[1] \o sep \o Join(Tail(list), sep)

Alice == <<"A", "l">>

\* people fields: absent, empty, blank entries, the entries "Al", " Bo" and
\* "al" in lists of up to three, and lists of 29 to 32 entries "z"
PeopleInputs ==
    LET entries == {Alice, <<" ", "B", "o">>, <<"a", "l">>, <<" ">>, <<>>}
        lists == UNION {[1..n -> entries] : n \in 1..3}
    IN  {Undefined}
           \cup {Str(Join(l, <<",">>)) : l \in {l \in lists : l[1] = Alice}}
           \cup {Str(Join([i \in 1..n |-> <<"z">>], <<",", " ">>)) : n \in 29..32}

PeopleBodies ==
    [title : {Sun}, caption : {Undefined}, location : {Undefined},
     people : PeopleInputs]

NextPeople ==
    \/ PhotoStart({"c1"}, PeopleBodies)
    \/ PhotoEnsured({"c1"}, {<<"a">>})
    \/ PhotoStored({"c1"})
    \/ PhotoSaved({"c1"})

\* the uploads of one client with a people field, within one millisecond
SpecPeople == Init /\ [][NextPeople]_vars

\* the entries of the characters s: the runs of characters between the
\* commas, each without the white space around it, those left empty dropped
C11_Entries(s) ==
    LET commas == {i \in 1..Len(s) : s[i] = ","}
        before(i) == Cardinality({k \in commas : k < i})
        \* where the n-th run starts and ends
        from(n) == IF n = 1 THEN 1
                   ELSE 1 + CHOOSE i \in commas : before(i) = n - 2
        to(n) == IF n = Cardinality(commas) + 1 THEN Len(s)
                 ELSE (CHOOSE i \in commas : before(i) = n - 1) - 1
        runs == [n \in 1..(Cardinality(commas) + 1) |-> Trim(SubSeq(s, from(n), to(n)))]
    IN  SelectSeq(runs, LAMBDA e : e # <<>>)

\* the people a request with the field raw is to store
C11_Expected(raw) ==
    LET all == IF raw.t = "undefined" THEN <<>> ELSE C11_Entries(raw.s)
    IN  SubSeq(all, 1, Min(30, Len(all)))

\* C11: the people of a photo are the entries of the comma-separated field,
\* trimmed, without the empty ones, in their order, duplicates and case
\* kept, and never more than 30: so it is for the document a request is
\* about to write, and no stored photo has more than 30 people.
C11_PeopleListParsed ==
    /\ \A c \in Clients :
          reqs[c].pc = "save" =>
              reqs[c].doc.people = C11_Expected(reqs[c].rawPeople)
    /\ \A d \in photos : Len(d.people) <= 30


-----------------------------------------------------------------------------
(* The name and the text of a comment *)

CapNames ==
    {Undefined, Str(<<>>), Str(<<" ">>), Str(<<" ", "B", "o">>),
     Str(Chars(NameCap, "n")), Str(Chars(NameCap + 1, "n"))}

CapTexts ==
    {Str(<<" ">>), Str(<<"h", "i", " ">>),
     Str(Chars(TextCap, "t")), Str(Chars(TextCap + 1, "t"))}

NextCommentCaps ==
    \/ CommentPost({<<"p">>}, CapNames, CapTexts, {<<"a">>})
    \/ CommentGet

\* comments with names and texts at and over the caps, within one millisecond
SpecCommentCaps == Init /\ [][NextCommentCaps]_vars

\* C12: every stored comment has a text of 1 to 1000 characters and a name of
\* 1 to 80 characters, the text without white space around it, and a comment
\* posted with an absent, empty or blank name is stored with the name
\* "Anonymous".
C12_CommentWithinCaps ==
    /\ \A d \in comments :
          /\ d.text # <<>> /\ Len(d.text) <= 1000 /\ ~IsSpace(d.text[1])
          /\ d.name # <<>> /\ Len(d.name) <= 80
    /\ (last.op = "POST comment" /\ last.status = 201 /\ BlankInput(last.name))
          => last.comment.name = Anonymous

\* C14: a Conflict of the store is not reported to the caller: no POST
\* comment is answered 500 with the Conflict of a create.
C14_ConflictNotSurfaced ==
    (last.op = "POST comment" /\ last.status = 500) => last.error # "Conflict"


-----------------------------------------------------------------------------
(* Ratings submitted concurrently *)

\* POST /api/photos/:id/rating, to its await: the value is tested, the
\* document is made and the upsert is called
RatingStart(c, photoId, body) ==
    /\ reqs[c].pc = "idle"
    /\ IF ~RatingIsValid(ToNumber(body.value))
       THEN /\ last' = [op |-> "POST rating", status |-> 400, io |-> 0,
                        value |-> body.value]
            /\ UNCHANGED reqs
       ELSE /\ reqs' = [reqs EXCEPT ![c] =
                  [pc |-> "upsert", value |-> body.value,
                   userKey |-> body.userKey,
                   doc |-> RatingDoc(photoId, body)]]
            /\ UNCHANGED last
    /\ UNCHANGED <<ratings, lastRated>>

\* the upsert returns: the store has replaced or added the document as one
\* step, or the call has failed.  The history keeps, with the value saved
\* for the pair, the user key the request was sent with.
RatingStored(c, ok) ==
    /\ reqs[c].pc = "upsert"
    /\ LET doc == reqs[c].doc
       IN  IF ok
           THEN /\ Cardinality(RatingUpsert(ratings, doc)) <= MaxRatings
                /\ ratings' = RatingUpsert(ratings, doc)
                /\ lastRated' =
                      {h \in lastRated : h.pair # PairOf(doc)}
                         \cup {[pair |-> PairOf(doc), value |-> doc.value,
                                 key |-> reqs[c].userKey]}
                /\ last' = [op |-> "POST rating", status |-> 201, io |-> 1,
                            value |-> reqs[c].value,
                            replaced |-> Replaces(ratings, doc)]
           ELSE /\ last' = [op |-> "POST rating", status |-> 500, io |-> 1,
                            value |-> reqs[c].value]
                /\ UNCHANGED <<ratings, lastRated>>
    /\ reqs' = [reqs EXCEPT ![c] = Idle]

RaceTargets == {<< <<"p">>, Undefined >>, << <<"p">>, Str(<<"u">>) >>}

otherThanRace == <<variant, comments, photos, blobs, containerExists, uploadsOk>>

RaceStart(clients, targets, values) ==
    /\ \E c \in clients, target \in targets, value \in values :
          RatingStart(c, target[1], [value |-> value, userKey |-> target[2]])
    /\ UNCHANGED <<now, otherThanRace>>

RaceStored(clients) ==
    /\ \E c \in clients, ok \in BOOLEAN : RatingStored(c, ok)
    /\ UNCHANGED <<now, otherThanRace>>

NextRatingRace ==
    \/ RaceStart(Clients, RaceTargets, FewValueInputs)
    \/ RaceStored(Clients)
    \/ RatingTick

\* the rating submissions of two clients, interleaved at the await
SpecRatingRace == Init /\ [][NextRatingRace]_vars

\* C13: ratings of one pair submitted concurrently leave one record, whole.
\* No step leaves two records of one pair, and a submission answered 201
\* leaves the document it sent as the only record of its pair.
C13_ConcurrentRatingsOneRecord ==
    [][/\ \A d, e \in ratings' : PairOf(d) = PairOf(e) => d = e
       /\ \A c \in Clients :
             (reqs[c].pc = "upsert" /\ reqs'[c].pc = "idle" /\ last'.status = 201)
                => {d \in ratings' : PairOf(d) = PairOf(reqs[c].doc)} = {reqs[c].doc}
      ]_vars

\* a submission is waiting for its upsert while the record of its pair holds
\* another value and is of a later time: the one that started later has
\* been stored first
C13_Witness ==
    \E c \in Clients :
       /\ reqs[c].pc = "upsert"
       /\ \E d \in ratings :
             /\ PairOf(d) = PairOf(reqs[c].doc)
             /\ d.value # reqs[c].doc.value
             /\ d.updatedAt > reqs[c].doc.updatedAt


-----------------------------------------------------------------------------
(* The frame of a rating *)

\* the two accepted values, a number and a numeric string
FrameValueInputs == {Num(25), Str(<<"5">>)}

NextRatingFrame ==
    \/ RaceStart({"c1"}, RatingTargets, FrameValueInputs)
    \/ RaceStored({"c1"})

\* the rating submissions of one client for every pair, within one
\* millisecond
SpecRatingFrame == Init /\ [][NextRatingFrame]_vars

\* the step in which the submission of client c is stored and answered 201
C15_Saved(c) ==
    reqs[c].pc = "upsert" /\ reqs'[c].pc = "idle" /\ last'.status = 201

\* C15, as stated: a rating of photo P sent with the user key U leaves the
\* summary of every other photo as it was, and the count of P grows by 1 if
\* no rating sent with U for P is stored and by 0 if one is.
C15_RatingAffectsOnlyItsPair ==
    [][\A c \in Clients : C15_Saved(c) =>
          \A P \in {reqs[c].doc.photoId},
             had \in {\E h \in lastRated :
                         h.pair[1] = reqs[c].doc.photoId /\ h.key = reqs[c].userKey} :
              /\ \A Q \in RatingPhotoIds \ {P} : Summarize(Q)' = Summarize(Q)
              /\ Summarize(P)'.count =
                    Summarize(P).count + (IF had THEN 0 ELSE 1)
      ]_vars

\* C15, with the user key as it is stored ("anon" for an absent or empty
\* key, the first 120 characters of a longer one): a rating of photo P leaves
\* the summary of every other photo as it was, and the count of P grows by 1
\* if no rating of P is stored under that key and by 0 if one is.
C15_RatingAffectsOnlyItsStoredPair ==
    [][\A c \in Clients : C15_Saved(c) =>
          \A P \in {reqs[c].doc.photoId},
             had \in {\E d \in ratings : PairOf(d) = PairOf(reqs[c].doc)} :
              /\ \A Q \in RatingPhotoIds \ {P} : Summarize(Q)' = Summarize(Q)
              /\ Summarize(P)'.count =
                    Summarize(P).count + (IF had THEN 0 ELSE 1)
      ]_vars

\* a rating was replaced while two photos hold ratings of one id and a
\* rating sent with a key of more than 120 characters is stored
C15_Witness ==
    /\ last.op = "POST rating" /\ last.status = 201 /\ last.replaced
    /\ \E d, e \in ratings : d.id = e.id /\ d.photoId # e.photoId
    /\ \E h \in lastRated : h.key.t = "string" /\ Len(h.key.s) > UserKeyCap

====
